---- MODULE Spec2Model ----
(***************************************************************************)
(* SpaceManager (TypeScript) and UserManager (JavaScript) of twitter.js:   *)
(* the resolve -> cache check -> fetch -> merge pipeline of the two        *)
(* managers, with the transport as a nondeterministic remote.              *)
(***************************************************************************)
EXTENDS Naturals, Sequences, FiniteSets

VARIABLES
    spaceCache,   \* SpaceManager#cache : Collection<Snowflake, Space>
    userCache,    \* UserManager#cache  : Collection<Snowflake, User>
    calls,        \* per caller: its SpaceManager call, from invocation to the settled promise
    ucall         \* the UserManager call, from invocation to its result

vars == <<spaceCache, userCache, calls, ucall>>

-----------------------------------------------------------------------------
(* Bounds *)

MaxBatch == 2     \* longest `spaces` / `users` / `user` array a caller passes
MaxResp == 2      \* most entities a multi-entity response carries

-----------------------------------------------------------------------------
(* JavaScript values *)

Null == "<null>"
Undefined == "<undefined>"
Truthy(x) == x \notin {Null, Undefined, ""}

SpaceIds == {"1", "2"}
UserIds == {"7", "8"}
Usernames == {"alice", "bob"}
\* the payloads the remote may serve for one id
Versions == {1, 2}
\* Snowflake: a numeric string
IsSnowflake(s) == s \in SpaceIds \cup UserIds

Str(s) == [t |-> "string", s |-> s, id |-> "", name |-> ""]
Inst(i, n) == [t |-> "instance", s |-> "", id |-> i, name |-> n]
Num == [t |-> "number", s |-> "", id |-> "", name |-> ""]

\* flags of BaseFetchOptions: absent, true or false
Flags == {"undefined", "true", "false"}

SeqsUpTo(S, n) == UNION {[1..k -> S] : k \in 0..n}

-----------------------------------------------------------------------------
(* Collection: a Map, kept as its entries in insertion order *)

EmptyColl == <<>>
CollHas(coll, key) == \E i \in 1..Len(coll) : coll[i].k = key
CollIndex(coll, key) == CHOOSE i \in 1..Len(coll) : coll[i].k = key
CollGet(coll, key) == coll[CollIndex(coll, key)].v
\* Map.set: a present key keeps its place and takes the new value
CollSet(coll, key, val) ==
    IF CollHas(coll, key)
    THEN [coll EXCEPT ![CollIndex(coll, key)] = [k |-> key, v |-> val]]
    ELSE Append(coll, [k |-> key, v |-> val])
CollKeys(coll) == {coll[i].k : i \in 1..Len(coll)}
CollValues(coll) == {coll[i].v : i \in 1..Len(coll)}

-----------------------------------------------------------------------------
(* Outcomes of a call *)

NoEnt == [id |-> "", ver |-> 0, name |-> ""]
Pending == [kind |-> "pending", ent |-> NoEnt, coll |-> EmptyColl, err |-> ""]
ReturnEnt(e) == [kind |-> "entity", ent |-> e, coll |-> EmptyColl, err |-> ""]
ReturnColl(c) == [kind |-> "collection", ent |-> NoEnt, coll |-> c, err |-> ""]
ReturnNull == [kind |-> "null", ent |-> NoEnt, coll |-> EmptyColl, err |-> ""]
ReturnUndefined == [kind |-> "undefined", ent |-> NoEnt, coll |-> EmptyColl, err |-> ""]
Throw(e) == [kind |-> "throw", ent |-> NoEnt, coll |-> EmptyColl, err |-> e]

\* errors of the library (CustomTypeError, by message key) and of the runtime
INVALID_TYPE == "CustomTypeError:INVALID_TYPE"
INVALID_FETCH_OPTIONS == "CustomTypeError:INVALID_FETCH_OPTIONS"
SPACE_RESOLVE_ID == "CustomTypeError:SPACE_RESOLVE_ID"
USER_RESOLVE_ID == "CustomTypeError:USER_RESOLVE_ID"
NativeTypeError == "TypeError"
CustomTypeErrors == {INVALID_TYPE, INVALID_FETCH_OPTIONS, SPACE_RESOLVE_ID, USER_RESOLVE_ID}
\* what a transport call may fail with
TransportErrors == {"RemoteApiError", "Timeout", "Cancelled"}

NoReq == [endpoint |-> "", ids |-> <<>>, arg |-> Num]
Req(endpoint, ids) == [endpoint |-> endpoint, ids |-> ids, arg |-> Num]

\* what the synchronous part of a handler ends in
Settled(result) == [kind |-> "settled", result |-> result, req |-> NoReq]
Await(req) == [kind |-> "await", result |-> Pending, req |-> req]

-----------------------------------------------------------------------------
(* BaseManager *)

\* resolveId: an instance gives its id, a canonical id itself, anything else null
BaseResolveId(r) ==
    IF r.t = "instance" THEN r.id
    ELSE IF r.t = "string" /\ IsSnowflake(r.s) THEN r.s
    ELSE Null

\* the structure built from one raw entity of a response
NewSpace(raw) == [id |-> raw.id, ver |-> raw.ver, name |-> ""]

\* _add(id, data, cacheAfterFetching = true): build, store unless told not to
AddEntry(raw) == NewSpace(raw)
AddCache(cache, id, raw, caf) ==
    IF caf # "false" THEN CollSet(cache, id, AddEntry(raw)) ELSE cache

\* client.users.resolveId: as BaseManager, then the username as secondary key
UsersResolveId(r, ucache) ==
    IF Truthy(BaseResolveId(r)) THEN BaseResolveId(r)
    ELSE IF r.t = "string" /\ \E i \in 1..Len(ucache) : ucache[i].v.name = r.s
         THEN ucache[CHOOSE i \in 1..Len(ucache) :
                        /\ ucache[i].v.name = r.s
                        /\ \A j \in 1..(i - 1) : ucache[j].v.name # r.s].v.id
         ELSE Null

-----------------------------------------------------------------------------
(* Inputs of the SpaceManager *)

SpaceResolvables == {Str("1"), Str("2"), Str("live"), Inst("1", ""), Num}
UserResolvables == {Str("7"), Str("alice"), Str("bob"), Inst("8", "alice")}

\* an options value: its typeof class, the own fields it has, and their values
Options(t, has, one, many, isArray, skip, caf) ==
    [t |-> t, has |-> has, one |-> one, many |-> many, manyIsArray |-> isArray,
     skipCacheCheck |-> skip, cacheAfterFetching |-> caf]
NonObject(t) == Options(t, {}, Num, <<>>, FALSE, "undefined", "undefined")

MalformedOptions == {NonObject(t) : t \in {"undefined", "null", "string"}}

FetchOptions ==
    MalformedOptions
    \cup {Options("object", {}, Num, <<>>, FALSE, "undefined", caf) : caf \in Flags}
    \cup {Options("object", {"space"}, r, <<>>, FALSE, skip, caf) :
            r \in SpaceResolvables, skip \in Flags, caf \in Flags}
    \cup {Options("object", {"spaces"}, Num, rs, TRUE, "undefined", caf) :
            rs \in SeqsUpTo(SpaceResolvables, MaxBatch), caf \in Flags}
    \cup {Options("object", {"spaces"}, Num, <<>>, FALSE, "undefined", "undefined")}

FetchByCreatorIdsOptions ==
    MalformedOptions
    \cup {Options("object", {}, Num, <<>>, FALSE, "undefined", "undefined")}
    \cup {Options("object", {"users"}, Num, rs, TRUE, "undefined", caf) :
            rs \in SeqsUpTo(UserResolvables, MaxBatch), caf \in Flags}
    \cup {Options("object", {"users"}, Num, <<>>, FALSE, "undefined", "undefined")}

SearchOptions ==
    {Options("object", {"query"}, Num, <<>>, FALSE, "undefined", caf) : caf \in Flags}

-----------------------------------------------------------------------------
(* Responses of the transport *)

RawSpaces == [id : SpaceIds, ver : Versions]
NoResp == [count |-> 0, hasData |-> FALSE, data |-> <<>>, err |-> "none"]
\* meta.result_count = 0 and no data
EmptyResp == [count |-> 0, hasData |-> FALSE, data |-> <<>>, err |-> ""]
DataResp(raws) == [count |-> Len(raws), hasData |-> TRUE, data |-> raws, err |-> ""]
ErrorResp(e) == [count |-> 0, hasData |-> FALSE, data |-> <<>>, err |-> e]

Range(seq) == {seq[i] : i \in 1..Len(seq)}

\* GET /spaces/:id answers with the space asked for, or with nothing
SingleResponses(id) ==
    {EmptyResp} \cup {DataResp(<<raw>>) : raw \in {r \in RawSpaces : r.id = id}}
\* GET /spaces?ids= answers with spaces among those asked for
MultipleResponses(ids) ==
    {EmptyResp} \cup
    {DataResp(raws) : raws \in {s \in SeqsUpTo(RawSpaces, MaxResp) :
                                  s # <<>> /\ \A i \in 1..Len(s) : s[i].id \in Range(ids)}}
\* by creator and by search: any spaces
ListResponses ==
    {EmptyResp} \cup {DataResp(raws) : raws \in SeqsUpTo(RawSpaces, MaxResp) \ {<<>>}}

-----------------------------------------------------------------------------
(* SpaceManager: the synchronous part of each method, up to its transport call *)

\* typeof options === 'object' (true of null too)
TypeofObject(o) == o.t \in {"object", "null"}

\* mutants of #fetchSingleSpace: no cache check at all; a cache check that ignores the flag
fetchSingleSpace_NoCacheCheck(spaceId, o, cache) ==
    Await(Req("spaces/:id", <<spaceId>>))
fetchSingleSpace_IgnoresSkip(spaceId, o, cache) ==
    IF CollHas(cache, spaceId)
    THEN Settled(ReturnEnt(CollGet(cache, spaceId)))
    ELSE Await(Req("spaces/:id", <<spaceId>>))

\* #fetchSingleSpace, up to the request
fetchSingleSpace(spaceId, o, cache) ==
    IF o.skipCacheCheck # "true" /\ CollHas(cache, spaceId)
    THEN Settled(ReturnEnt(CollGet(cache, spaceId)))
    ELSE Await(Req("spaces/:id", <<spaceId>>))

\* #fetchMultipleSpaces, up to the request
fetchMultipleSpaces(spaceIds, o) ==
    Await(Req("spaces", spaceIds))

\* options.spaces.map(space => resolveId(space)): the ids, when all resolve
ResolveSpaceIds(rs) == [i \in 1..Len(rs) |-> BaseResolveId(rs[i])]
\* mutant: only the first element is checked
AllResolve_FirstOnly(ids) == Len(ids) = 0 \/ Truthy(ids[1])
\* if (!id) throw ..., for each element
AllResolve(ids) == \A i \in 1..Len(ids) : Truthy(ids[i])

SpaceManager_fetch(o, cache) ==
    IF ~TypeofObject(o) THEN Settled(Throw(INVALID_TYPE))
    ELSE IF o.t = "null" THEN Settled(Throw(NativeTypeError))   \* 'space' in null
    ELSE IF "space" \in o.has THEN
        IF ~Truthy(BaseResolveId(o.one)) THEN Settled(Throw(SPACE_RESOLVE_ID))
        ELSE fetchSingleSpace(BaseResolveId(o.one), o, cache)
    ELSE IF "spaces" \in o.has THEN
        IF ~o.manyIsArray THEN Settled(Throw(INVALID_TYPE))
        ELSE IF ~AllResolve(ResolveSpaceIds(o.many)) THEN Settled(Throw(SPACE_RESOLVE_ID))
        ELSE fetchMultipleSpaces(ResolveSpaceIds(o.many), o)
    ELSE Settled(Throw(INVALID_FETCH_OPTIONS))

\* options.users.map(user => client.users.resolveId(user))
ResolveUserIds(rs, ucache) == [i \in 1..Len(rs) |-> UsersResolveId(rs[i], ucache)]

SpaceManager_fetchByCreatorIds(o, ucache) ==
    IF ~TypeofObject(o) THEN Settled(Throw(INVALID_TYPE))
    ELSE IF o.t = "null" THEN Settled(Throw(NativeTypeError))   \* null.users
    ELSE IF ~("users" \in o.has /\ o.manyIsArray) THEN Settled(Throw(INVALID_TYPE))
    ELSE IF ~AllResolve(ResolveUserIds(o.many, ucache)) THEN Settled(Throw(USER_RESOLVE_ID))
    ELSE Await(Req("spaces/by/creator_ids", ResolveUserIds(o.many, ucache)))

SpaceManager_search(o) ==
    Await(Req("spaces/search", <<>>))

-----------------------------------------------------------------------------
(* SpaceManager: what each method does with the response *)

Outcome(cache, result) == [cache |-> cache, result |-> result]

\* mutant: the caller's cacheAfterFetching is not passed on
RECURSIVE AddAll_AlwaysCaches(_, _, _, _)
AddAll_AlwaysCaches(cache, coll, raws, caf) ==
    IF raws = <<>> THEN Outcome(cache, ReturnColl(coll))
    ELSE AddAll_AlwaysCaches(AddCache(cache, Head(raws).id, Head(raws), "true"),
                             CollSet(coll, AddEntry(Head(raws)).id, AddEntry(Head(raws))),
                             Tail(raws), caf)

\* mutant: every id of the response is given the last space of the response
RECURSIVE AddAll_StoresTheLast(_, _, _, _)
AddAll_StoresTheLast(cache, coll, raws, caf) ==
    IF raws = <<>> THEN Outcome(cache, ReturnColl(coll))
    ELSE AddAll_StoresTheLast(AddCache(cache, Head(raws).id, raws[Len(raws)], caf),
                              CollSet(coll, AddEntry(Head(raws)).id, AddEntry(Head(raws))),
                              Tail(raws), caf)

\* for (const rawSpace of rawSpaces) { _add(...); fetchedSpaceCollection.set(...) }
RECURSIVE AddAll(_, _, _, _)
AddAll(cache, coll, raws, caf) ==
    IF raws = <<>> THEN Outcome(cache, ReturnColl(coll))
    ELSE AddAll(AddCache(cache, Head(raws).id, Head(raws), caf),
                CollSet(coll, AddEntry(Head(raws)).id, AddEntry(Head(raws))),
                Tail(raws), caf)

\* mutants of the end of #fetchSingleSpace: an id already cached keeps its entity; the
\* built entity is returned but never stored
fetchSingleSpaceResume_KeepsCached(cache, resp, o) ==
    IF ~resp.hasData THEN Outcome(cache, Throw(NativeTypeError))
    ELSE IF CollHas(cache, resp.data[1].id)
         THEN Outcome(cache, ReturnEnt(AddEntry(resp.data[1])))
         ELSE Outcome(AddCache(cache, resp.data[1].id, resp.data[1], o.cacheAfterFetching),
                      ReturnEnt(AddEntry(resp.data[1])))
fetchSingleSpaceResume_NeverStores(cache, resp, o) ==
    IF ~resp.hasData THEN Outcome(cache, Throw(NativeTypeError))
    ELSE Outcome(cache, ReturnEnt(AddEntry(resp.data[1])))

\* return this._add(data.data.id, data, options.cacheAfterFetching)
fetchSingleSpaceResume(cache, resp, o) ==
    IF ~resp.hasData THEN Outcome(cache, Throw(NativeTypeError))   \* undefined.id
    ELSE Outcome(AddCache(cache, resp.data[1].id, resp.data[1], o.cacheAfterFetching),
                 ReturnEnt(AddEntry(resp.data[1])))

fetchMultipleSpacesResume(cache, resp, o) ==
    IF ~resp.hasData THEN Outcome(cache, Throw(NativeTypeError))   \* undefined is not iterable
    ELSE AddAll(cache, EmptyColl, resp.data, o.cacheAfterFetching)

fetchByCreatorIdsResume(cache, resp, o) ==
    IF resp.count = 0 THEN Outcome(cache, ReturnColl(EmptyColl))
    ELSE AddAll(cache, EmptyColl, resp.data, o.cacheAfterFetching)

searchResume(cache, resp, o) ==
    IF resp.count = 0 THEN Outcome(cache, ReturnColl(EmptyColl))
    ELSE AddAll(cache, EmptyColl, resp.data, o.cacheAfterFetching)

\* mutant: the error is swallowed and the call resolves to an empty collection
AwaitRejects_Swallows(cache, e) == Outcome(cache, ReturnColl(EmptyColl))

\* a rejected await: the async method rejects with the transport's error
AwaitRejects(cache, e) == Outcome(cache, Throw(e))

-----------------------------------------------------------------------------
(* UserManager: inputs *)

ObjVal == [t |-> "object", s |-> "", id |-> "", name |-> ""]
NoVal == [t |-> "undefined", s |-> "", id |-> "", name |-> ""]

UserFetchResolvables == {Str("7"), Str("alice"), Str("bob"), Inst("8", "alice"), Num}

\* the argument of fetch / resolveID: a bare value, or an options object and its fields
Input(val, has, user, users, isArray, skip) ==
    [val |-> val, has |-> has, user |-> user, users |-> users, userIsArray |-> isArray,
     skipCacheCheck |-> skip]
Bare(val) == Input(val, {}, NoVal, <<>>, FALSE, "undefined")
NoInput == Bare(NoVal)

UserFetchInputs ==
    {Bare(r) : r \in UserFetchResolvables}
    \cup {Input(ObjVal, {}, NoVal, <<>>, FALSE, "undefined")}
    \cup {Input(ObjVal, {"user"}, r, <<>>, FALSE, skip) :
            r \in UserFetchResolvables, skip \in Flags}
    \cup {Input(ObjVal, {"user"}, NoVal, rs, TRUE, "undefined") :
            rs \in SeqsUpTo(UserFetchResolvables, MaxBatch)}

RawUsers == [id : UserIds, ver : {1}, name : Usernames]
\* what a users endpoint may answer with
UserListResponses ==
    {DataResp(raws) : raws \in SeqsUpTo(RawUsers, 1)}
    \cup {DataResp(<<[id |-> "7", ver |-> 1, name |-> "alice"],
                     [id |-> "8", ver |-> 1, name |-> "bob"]>>)}

-----------------------------------------------------------------------------
(* UserManager *)

\* BaseManager.resolveID of the JavaScript managers
BaseResolveID(r) == BaseResolveId(r)

\* this.cache.find(user => user.username === name): the first such entry, if any
FindByUsername(cache, name) ==
    {i \in 1..Len(cache) :
        /\ cache[i].v.name = name
        /\ \A j \in 1..(i - 1) : cache[j].v.name # name}

\* resolveID(userResolvable)
UserManager_resolveID(r, cache) ==
    IF Truthy(BaseResolveID(r)) THEN BaseResolveID(r)
    ELSE IF r.t = "string" THEN
        IF FindByUsername(cache, r.s) # {}
        THEN cache[CHOOSE i \in FindByUsername(cache, r.s) : TRUE].v.id
        ELSE Undefined                      \* undefined?.id
    ELSE Null

Req1(endpoint, arg) == [endpoint |-> endpoint, ids |-> <<>>, arg |-> arg]
AwaitThen(req, names) == [kind |-> "await", result |-> Pending, req |-> req, names |-> names]
SettledNow(result) == [kind |-> "settled", result |-> result, req |-> NoReq, names |-> <<>>]

\* _fetchSingle(query, queryType)
UserManager_fetchSingle(query, queryType) ==
    IF queryType = "ID" THEN AwaitThen(Req1("fetchUserById", query), <<>>)
    ELSE AwaitThen(Req1("fetchUserByUsername", query), <<>>)

\* _fetchMany(query, queryType)
UserManager_fetchMany(query, queryType) ==
    IF queryType = "ID" THEN Req("fetchUsersByIds", query)
    ELSE Req("fetchUsersByUsernames", query)

RECURSIVE MapSeq(_, _)
MapSeq(seq, cache) ==
    IF seq = <<>> THEN <<>>
    ELSE <<UserManager_resolveID(Head(seq), cache)>> \o MapSeq(Tail(seq), cache)
RECURSIVE Strings(_)
Strings(seq) == IF seq = <<>> THEN <<>> ELSE <<Head(seq).s>> \o Strings(Tail(seq))

\* the forEach of fetch: the ids of the elements that resolve
UserIdsArray(users, cache) ==
    MapSeq(SelectSeq(users, LAMBDA r : Truthy(UserManager_resolveID(r, cache))), cache)

\* mutant: the `else` is lost and every string goes to the usernames
UserNamesArray_NoElse(users, cache) ==
    Strings(SelectSeq(users, LAMBDA r : r.t = "string"))

\* the forEach of fetch: the strings that do not resolve
UserNamesArray(users, cache) ==
    Strings(SelectSeq(users, LAMBDA r :
                ~Truthy(UserManager_resolveID(r, cache)) /\ r.t = "string"))

\* fetch, up to its first await
UserManager_fetch(in, cache) ==
    IF Truthy(UserManager_resolveID(in.val, cache))
    THEN UserManager_fetchSingle(Str(UserManager_resolveID(in.val, cache)), "ID")
    ELSE IF in.val.t = "string" THEN UserManager_fetchSingle(in.val, "USERNAME")
    ELSE IF "user" \in in.has THEN
        IF in.userIsArray THEN
            IF UserIdsArray(in.users, cache) # <<>>
            THEN AwaitThen(UserManager_fetchMany(UserIdsArray(in.users, cache), "ID"),
                           UserNamesArray(in.users, cache))
            ELSE IF UserNamesArray(in.users, cache) # <<>>
            THEN AwaitThen(UserManager_fetchMany(UserNamesArray(in.users, cache), "USERNAME"),
                           <<>>)
            ELSE SettledNow(ReturnColl(EmptyColl))
        ELSE IF Truthy(UserManager_resolveID(in.user, cache))
        THEN UserManager_fetchSingle(in.user, "ID")          \* options.user, not userID
        ELSE IF in.user.t = "string" THEN UserManager_fetchSingle(in.user, "USERNAME")
        ELSE SettledNow(ReturnUndefined)
    ELSE SettledNow(ReturnUndefined)

\* userBuilder: the User(s) of the data, stored in the cache
NewUser(raw) == [id |-> raw.id, ver |-> raw.ver, name |-> raw.name]
RECURSIVE BuildUsers(_, _, _)
BuildUsers(cache, coll, raws) ==
    IF raws = <<>> THEN Outcome(cache, ReturnColl(coll))
    ELSE BuildUsers(CollSet(cache, Head(raws).id, NewUser(Head(raws))),
                    CollSet(coll, Head(raws).id, NewUser(Head(raws))),
                    Tail(raws))
userBuilder(cache, raw) ==
    Outcome(CollSet(cache, raw.id, NewUser(raw)), ReturnEnt(NewUser(raw)))

\* cleanFetchManyUsersResponse: the users of all the responses, in order
RECURSIVE cleanFetchManyUsersResponse(_)
cleanFetchManyUsersResponse(usersResponse) ==
    IF usersResponse = <<>> THEN <<>>
    ELSE Head(usersResponse).data \o cleanFetchManyUsersResponse(Tail(usersResponse))

-----------------------------------------------------------------------------
(* State *)

Callers == {"a", "b"}

NoOptions == NonObject("none")

\* a call: where it is, what it was given, what it has sent, what it was answered and
\* what it gave back; `before` and `after` are the cache around its latest step and
\* `ubefore` the user cache it resolved against
IdleCall ==
    [pc |-> "idle", op |-> "", opts |-> NoOptions, req |-> NoReq, sent |-> <<>>,
     resp |-> NoResp, result |-> Pending,
     before |-> EmptyColl, after |-> EmptyColl, ubefore |-> EmptyColl]

\* the user caches a session can have built: each user under its own id
UserCacheStates ==
    {<<>>,
     <<[k |-> "7", v |-> [id |-> "7", ver |-> 1, name |-> "alice"]]>>,
     <<[k |-> "8", v |-> [id |-> "8", ver |-> 1, name |-> "alice"]],
       [k |-> "7", v |-> [id |-> "7", ver |-> 1, name |-> "alice"]]>>}

\* the UserManager call: as a call above; `input` is the argument, `names` the usernames
\* still to be requested, `responses` the usersResponse array, `value` the id a resolveID
\* call gave, `cache0` the user cache at the invocation
IdleUserCall ==
    [pc |-> "idle", op |-> "", input |-> NoInput, req |-> NoReq, sent |-> <<>>,
     names |-> <<>>, responses |-> <<>>, resp |-> NoResp, result |-> Pending,
     value |-> "", before |-> EmptyColl, after |-> EmptyColl, cache0 |-> EmptyColl]

Init ==
    /\ spaceCache = EmptyColl
    /\ userCache \in UserCacheStates
    /\ calls = [c \in Callers |-> IdleCall]
    /\ ucall = IdleUserCall

-----------------------------------------------------------------------------
(* SpaceManager actions *)

\* a caller invokes a method: its synchronous part runs to the first await or to the end
Invoke(c, op, o, out) ==
    /\ calls[c].pc = "idle"
    /\ calls' = [calls EXCEPT ![c] =
                    [pc |-> IF out.kind = "await" THEN "await" ELSE "done",
                     op |-> op, opts |-> o, req |-> out.req,
                     sent |-> IF out.kind = "await" THEN <<out.req>> ELSE <<>>,
                     resp |-> NoResp, result |-> out.result,
                     before |-> spaceCache, after |-> spaceCache, ubefore |-> userCache]]
    /\ UNCHANGED <<spaceCache, userCache, ucall>>

\* the awaited transport call settles and the method runs to its end
Resume(c, resp, out) ==
    /\ spaceCache' = out.cache
    /\ calls' = [calls EXCEPT ![c] =
                    [@ EXCEPT !.pc = "done", !.resp = resp, !.result = out.result,
                              !.before = spaceCache, !.after = out.cache]]
    /\ UNCHANGED <<userCache, ucall>>

Fetch(c) ==
    \E o \in FetchOptions : Invoke(c, "fetch", o, SpaceManager_fetch(o, spaceCache))

FetchByCreatorIds(c) ==
    \E o \in FetchByCreatorIdsOptions :
        Invoke(c, "fetchByCreatorIds", o, SpaceManager_fetchByCreatorIds(o, userCache))

Search(c) ==
    \E o \in SearchOptions : Invoke(c, "search", o, SpaceManager_search(o))

Awaiting(c, endpoint) == calls[c].pc = "await" /\ calls[c].req.endpoint = endpoint

SettleSingle(c) ==
    /\ Awaiting(c, "spaces/:id")
    /\ \E resp \in SingleResponses(calls[c].req.ids[1]) :
          Resume(c, resp, fetchSingleSpaceResume(spaceCache, resp, calls[c].opts))

SettleMultiple(c) ==
    /\ Awaiting(c, "spaces")
    /\ \E resp \in MultipleResponses(calls[c].req.ids) :
          Resume(c, resp, fetchMultipleSpacesResume(spaceCache, resp, calls[c].opts))

SettleByCreatorIds(c) ==
    /\ Awaiting(c, "spaces/by/creator_ids")
    /\ \E resp \in ListResponses :
          Resume(c, resp, fetchByCreatorIdsResume(spaceCache, resp, calls[c].opts))

SettleSearch(c) ==
    /\ Awaiting(c, "spaces/search")
    /\ \E resp \in ListResponses :
          Resume(c, resp, searchResume(spaceCache, resp, calls[c].opts))

TransportRejects(c) ==
    /\ calls[c].pc = "await"
    /\ \E e \in TransportErrors : Resume(c, ErrorResp(e), AwaitRejects(spaceCache, e))

\* the caller takes the settled promise's value or error
Release(c) ==
    /\ calls[c].pc = "done"
    /\ calls' = [calls EXCEPT ![c] = IdleCall]
    /\ UNCHANGED <<spaceCache, userCache, ucall>>

SpaceNext(C) ==
    \E c \in C :
        \/ Fetch(c)
        \/ FetchByCreatorIds(c)
        \/ Search(c)
        \/ SettleSingle(c)
        \/ SettleMultiple(c)
        \/ SettleByCreatorIds(c)
        \/ SettleSearch(c)
        \/ TransportRejects(c)
        \/ Release(c)

\* one caller at a time
SpaceSpec == Init /\ [][SpaceNext({"a"})]_vars

-----------------------------------------------------------------------------
(* UserManager actions *)

UserResolveID ==
    /\ ucall.pc = "idle"
    /\ \E r \in UserFetchResolvables :
          ucall' = [IdleUserCall EXCEPT
                      !.pc = "done", !.op = "resolveID", !.input = Bare(r),
                      !.value = UserManager_resolveID(r, userCache),
                      !.before = userCache, !.after = userCache, !.cache0 = userCache]
    /\ UNCHANGED <<spaceCache, userCache, calls>>

UserFetch ==
    /\ ucall.pc = "idle"
    /\ \E in \in UserFetchInputs :
          LET out == UserManager_fetch(in, userCache) IN
          ucall' = [IdleUserCall EXCEPT
                      !.pc = IF out.kind = "await" THEN "await" ELSE "done",
                      !.op = "fetch", !.input = in, !.req = out.req,
                      !.sent = IF out.kind = "await" THEN <<out.req>> ELSE <<>>,
                      !.names = out.names, !.result = out.result,
                      !.before = userCache, !.after = userCache, !.cache0 = userCache]
    /\ UNCHANGED <<spaceCache, userCache, calls>>

UserFinish(resp, out) ==
    /\ userCache' = out.cache
    /\ ucall' = [ucall EXCEPT !.pc = "done", !.resp = resp, !.result = out.result,
                              !.before = userCache, !.after = out.cache]
    /\ UNCHANGED <<spaceCache, calls>>

\* fetchUserById / fetchUserByUsername answers
UserSettleSingle ==
    /\ ucall.pc = "await"
    /\ ucall.req.endpoint \in {"fetchUserById", "fetchUserByUsername"}
    /\ \E raw \in RawUsers : UserFinish(DataResp(<<raw>>), userBuilder(userCache, raw))

\* fetchUsersByIds answers: the usernames, if any, are requested next
UserSettleIds ==
    /\ ucall.pc = "await"
    /\ ucall.req.endpoint = "fetchUsersByIds"
    /\ \E resp \in UserListResponses :
          IF ucall.names # <<>>
          THEN /\ ucall' = [ucall EXCEPT
                              !.req = UserManager_fetchMany(ucall.names, "USERNAME"),
                              !.sent = Append(@, UserManager_fetchMany(ucall.names, "USERNAME")),
                              !.names = <<>>, !.responses = Append(@, resp),
                              !.resp = resp, !.before = userCache, !.after = userCache]
               /\ UNCHANGED <<spaceCache, userCache, calls>>
          ELSE UserFinish(resp, BuildUsers(userCache, EmptyColl,
                    cleanFetchManyUsersResponse(Append(ucall.responses, resp))))

\* fetchUsersByUsernames answers
UserSettleNames ==
    /\ ucall.pc = "await"
    /\ ucall.req.endpoint = "fetchUsersByUsernames"
    /\ \E resp \in UserListResponses :
          UserFinish(resp, BuildUsers(userCache, EmptyColl,
                    cleanFetchManyUsersResponse(Append(ucall.responses, resp))))

UserTransportRejects ==
    /\ ucall.pc = "await"
    /\ \E e \in TransportErrors : UserFinish(ErrorResp(e), AwaitRejects(userCache, e))

UserRelease ==
    /\ ucall.pc = "done"
    /\ ucall' = IdleUserCall
    /\ UNCHANGED <<spaceCache, userCache, calls>>

UserNext ==
    \/ UserResolveID
    \/ UserFetch
    \/ UserSettleSingle
    \/ UserSettleIds
    \/ UserSettleNames
    \/ UserTransportRejects
    \/ UserRelease

UserSpec == Init /\ [][UserNext]_vars

-----------------------------------------------------------------------------
(* Properties of the SpaceManager *)

\* the call's latest step is its invocation
JustInvoked(c) == calls[c].pc # "idle" /\ calls[c].resp = NoResp
\* the call's awaited transport call has settled
JustSettled(c) == calls[c].pc = "done" /\ calls[c].resp # NoResp
FrameHolds(c) == calls[c].after = calls[c].before

IsFetchSingle(c) ==
    /\ calls[c].op = "fetch"
    /\ calls[c].opts.t = "object"
    /\ "space" \in calls[c].opts.has
IsFetchMultiple(c) ==
    /\ calls[c].op = "fetch"
    /\ calls[c].opts.t = "object"
    /\ "space" \notin calls[c].opts.has
    /\ "spaces" \in calls[c].opts.has
    /\ calls[c].opts.manyIsArray
IsByCreatorIds(c) ==
    /\ calls[c].op = "fetchByCreatorIds"
    /\ calls[c].opts.t = "object"
    /\ "users" \in calls[c].opts.has
    /\ calls[c].opts.manyIsArray

\* fetch {space: x} invoked with x resolving to a cached id and skipCacheCheck not true
CachedSingleFetch(c) ==
    /\ JustInvoked(c)
    /\ IsFetchSingle(c)
    /\ calls[c].opts.skipCacheCheck # "true"
    /\ Truthy(BaseResolveId(calls[c].opts.one))
    /\ CollHas(calls[c].before, BaseResolveId(calls[c].opts.one))

\* C1: fetch {space: x} with skipCacheCheck false or absent and x resolving to a cached id
\* returns the cached Space, makes no transport call and leaves the cache unchanged.
C1_CachedFetchServedFromCache ==
    \A c \in Callers :
        CachedSingleFetch(c) =>
            /\ calls[c].pc = "done"
            /\ calls[c].result =
                 ReturnEnt(CollGet(calls[c].before, BaseResolveId(calls[c].opts.one)))
            /\ calls[c].sent = <<>>
            /\ FrameHolds(c)

C1_Witness ==
    \E c \in Callers :
        /\ CachedSingleFetch(c)
        /\ calls[c].result.kind = "entity"
        /\ calls[c].opts.skipCacheCheck = "false"

\* fetch {space: x, skipCacheCheck: true} with x resolving to an id
SkipCacheFetch(c) ==
    /\ calls[c].pc # "idle"
    /\ IsFetchSingle(c)
    /\ calls[c].opts.skipCacheCheck = "true"
    /\ Truthy(BaseResolveId(calls[c].opts.one))

\* C2: fetch {space: x, skipCacheCheck: true} issues exactly one transport call, for
\* the id x resolves to, whether or not that id is cached.
C2_SkipCacheOneTransportCall ==
    \A c \in Callers :
        SkipCacheFetch(c) =>
            calls[c].sent = <<Req("spaces/:id", <<BaseResolveId(calls[c].opts.one)>>)>>

C2_Witness ==
    \E c \in Callers :
        /\ SkipCacheFetch(c)
        /\ JustSettled(c)
        /\ CollHas(calls[c].before, BaseResolveId(calls[c].opts.one))
        /\ Len(calls[c].sent) = 1

\* C3: on a response with meta.result_count = 0 and no data, fetch {space} resolves to
\* null and fetch {spaces}, fetchByCreatorIds and search resolve to an empty collection;
\* none raises an error and none changes the cache.
C3_EmptyResponseIsNotAnError ==
    \A c \in Callers :
        (JustSettled(c) /\ calls[c].resp = EmptyResp) =>
            /\ calls[c].result =
                 IF IsFetchSingle(c) THEN ReturnNull ELSE ReturnColl(EmptyColl)
            /\ FrameHolds(c)

\* options that are malformed for the method they are given to
Malformed(c) ==
    /\ JustInvoked(c)
    /\ \/ calls[c].op \in {"fetch", "fetchByCreatorIds"} /\ calls[c].opts.t # "object"
       \/ /\ calls[c].op = "fetch"
          /\ "space" \notin calls[c].opts.has
          /\ "spaces" \in calls[c].opts.has => ~calls[c].opts.manyIsArray
       \/ /\ calls[c].op = "fetchByCreatorIds"
          /\ "users" \in calls[c].opts.has => ~calls[c].opts.manyIsArray

\* C4: fetch and fetchByCreatorIds given malformed options fail with a CustomTypeError
\* before any transport call, the cache unchanged.
C4_MalformedOptionsRaiseCustomTypeError ==
    \A c \in Callers :
        Malformed(c) =>
            /\ calls[c].pc = "done"
            /\ calls[c].result.kind = "throw"
            /\ calls[c].result.err \in CustomTypeErrors
            /\ calls[c].sent = <<>>
            /\ FrameHolds(c)

\* some resolvable of the call does not resolve to an id
SomeSpaceUnresolved(c) ==
    \/ IsFetchSingle(c) /\ ~Truthy(BaseResolveId(calls[c].opts.one))
    \/ /\ IsFetchMultiple(c)
       /\ \E i \in 1..Len(calls[c].opts.many) : ~Truthy(BaseResolveId(calls[c].opts.many[i]))
SomeUserUnresolved(c) ==
    /\ IsByCreatorIds(c)
    /\ \E i \in 1..Len(calls[c].opts.many) :
          ~Truthy(UsersResolveId(calls[c].opts.many[i], calls[c].ubefore))

\* C5: a call with a resolvable that does not resolve fails with SPACE_RESOLVE_ID
\* (fetch) or USER_RESOLVE_ID (fetchByCreatorIds), sends nothing for any element of the
\* batch and leaves the cache unchanged.
C5_UnresolvedFailsBeforeTransport ==
    \A c \in Callers :
        /\ (calls[c].pc # "idle" /\ SomeSpaceUnresolved(c)) =>
              calls[c].result = Throw(SPACE_RESOLVE_ID)
        /\ (calls[c].pc # "idle" /\ SomeUserUnresolved(c)) =>
              calls[c].result = Throw(USER_RESOLVE_ID)
        /\ (calls[c].pc # "idle" /\ (SomeSpaceUnresolved(c) \/ SomeUserUnresolved(c))) =>
              /\ calls[c].pc = "done"
              /\ calls[c].sent = <<>>
              /\ FrameHolds(c)

\* a batch whose first element resolves and whose second does not
C5_Witness ==
    \E c \in Callers :
        /\ calls[c].pc = "done"
        /\ SomeSpaceUnresolved(c)
        /\ IsFetchMultiple(c)
        /\ Len(calls[c].opts.many) = 2
        /\ Truthy(BaseResolveId(calls[c].opts.many[1]))
        /\ calls[c].result.kind = "throw"

\* the entities a result holds
Returned(result) ==
    IF result.kind = "entity" THEN {result.ent}
    ELSE IF result.kind = "collection" THEN CollValues(result.coll)
    ELSE {}
Succeeded(c) == calls[c].pc = "done" /\ calls[c].result.kind # "throw"

\* C6: a fetch operation that completes successfully leaves the cache as it was when
\* cacheAfterFetching is false, and otherwise leaves every returned entity in the cache
\* under its id.
C6_CacheAfterFetchingDecidesTheUpsert ==
    \A c \in Callers :
        Succeeded(c) =>
            IF calls[c].opts.cacheAfterFetching = "false"
            THEN FrameHolds(c)
            ELSE \A e \in Returned(calls[c].result) :
                    /\ CollHas(calls[c].after, e.id)
                    /\ CollGet(calls[c].after, e.id) = e

\* a multi-entity fetch with caching off that returned something the cache did not hold
C6_Witness ==
    \E c \in Callers :
        /\ Succeeded(c)
        /\ JustSettled(c)
        /\ calls[c].opts.cacheAfterFetching = "false"
        /\ Len(calls[c].result.coll) = 2
        /\ calls[c].before = EmptyColl

\* C7: when the transport call of a fetch operation fails, the call fails with that same
\* error, no second transport call is made and the cache is unchanged.
C7_TransportErrorPropagates ==
    \A c \in Callers :
        (JustSettled(c) /\ calls[c].resp.err \in TransportErrors) =>
            /\ calls[c].result = Throw(calls[c].resp.err)
            /\ Len(calls[c].sent) = 1
            /\ FrameHolds(c)

C7_Witness ==
    \E c \in Callers :
        /\ JustSettled(c)
        /\ calls[c].resp.err = "Timeout"
        /\ calls[c].result.kind = "throw"
        /\ calls[c].before # EmptyColl

-----------------------------------------------------------------------------
(* Properties of the UserManager *)

\* the ids of the cached users whose username is k
IdsOfUsername(cache, k) == {cache[i].v.id : i \in {j \in 1..Len(cache) : cache[j].v.name = k}}

\* resolveID was applied to a string that is not a canonical id
ResolvedSecondaryKey ==
    /\ ucall.pc = "done"
    /\ ucall.op = "resolveID"
    /\ ucall.input.val.t = "string"
    /\ ~IsSnowflake(ucall.input.val.s)

\* C8: for a string k that is not a canonical id, resolveID(k) is the id of a cached user
\* whose username is k when there is one, and null when there is none; the cache is not
\* changed.
C8_ResolveIDBySecondaryKey ==
    ResolvedSecondaryKey =>
        /\ IdsOfUsername(ucall.before, ucall.input.val.s) # {} =>
              ucall.value \in IdsOfUsername(ucall.before, ucall.input.val.s)
        /\ IdsOfUsername(ucall.before, ucall.input.val.s) = {} => ucall.value = Null
        /\ ucall.after = ucall.before

\* the user the call was given, when it was given one directly or as options.user
GivenUser ==
    IF ucall.input.val.t = "object" THEN ucall.input.user ELSE ucall.input.val

\* fetch was invoked with a cached user id and skipCacheCheck not true
FetchOfCachedUserId ==
    /\ ucall.pc # "idle"
    /\ ucall.op = "fetch"
    /\ ucall.input.val.t = "object" => ("user" \in ucall.input.has /\ ~ucall.input.userIsArray)
    /\ ucall.input.skipCacheCheck # "true"
    /\ GivenUser.t = "string"
    /\ IsSnowflake(GivenUser.s)
    /\ CollHas(ucall.cache0, GivenUser.s)

\* C9: fetch given a cached user id, skipCacheCheck false or absent, returns the cached
\* user without calling fetchUserById or fetchUserByUsername.
C9_CachedUserServedFromCache ==
    FetchOfCachedUserId =>
        /\ ucall.sent = <<>>
        /\ ucall.pc = "done"
        /\ ucall.result = ReturnEnt(CollGet(ucall.cache0, GivenUser.s))

\* fetch was invoked with options.user an array
ArrayFetch ==
    /\ ucall.pc # "idle"
    /\ ucall.op = "fetch"
    /\ ucall.input.val.t = "object"
    /\ "user" \in ucall.input.has
    /\ ucall.input.userIsArray

CallsTo(endpoint) == SelectSeq(ucall.sent, LAMBDA q : q.endpoint = endpoint)
ResolvesAt(i) == Truthy(UserManager_resolveID(ucall.input.users[i], ucall.cache0))
IdOf(i) == UserManager_resolveID(ucall.input.users[i], ucall.cache0)
IsOtherString(i) == ~ResolvesAt(i) /\ ucall.input.users[i].t = "string"
Elements == 1..Len(ucall.input.users)

\* the ID call carries, in order, one id per element that resolves, and nothing else
IdCallCarriesTheResolved(q) ==
    /\ Len(q.ids) = Cardinality({i \in Elements : ResolvesAt(i)})
    /\ \A i \in Elements : ResolvesAt(i) =>
          q.ids[Cardinality({j \in 1..i : ResolvesAt(j)})] = IdOf(i)
\* the username call carries, in order, every other string element, and nothing else
NameCallCarriesTheOtherStrings(q) ==
    /\ Len(q.ids) = Cardinality({i \in Elements : IsOtherString(i)})
    /\ \A i \in Elements : IsOtherString(i) =>
          q.ids[Cardinality({j \in 1..i : IsOtherString(j)})] = ucall.input.users[i].s

SentAsId(i) ==
    /\ ResolvesAt(i)
    /\ \E k \in 1..Len(CallsTo("fetchUsersByIds")) :
          IdOf(i) \in Range(CallsTo("fetchUsersByIds")[k].ids)
SentAsName(i) ==
    /\ ucall.input.users[i].t = "string"
    /\ \E k \in 1..Len(CallsTo("fetchUsersByUsernames")) :
          ucall.input.users[i].s \in Range(CallsTo("fetchUsersByUsernames")[k].ids)

SingleUserFetch ==
    /\ ucall.pc # "idle"
    /\ ucall.op = "fetch"
    /\ ~ArrayFetch
    /\ ucall.sent # <<>>

IsCanonicalId(arg) == arg.t = "string" /\ IsSnowflake(arg.s)
IsUsernameString(arg) == arg.t = "string" /\ ~IsSnowflake(arg.s)

\* C11: a single-user fetch calls fetchUserById only with a canonical user id and
\* fetchUserByUsername only with a username string, for a bare resolvable as for
\* options.user; so fetch({user: x}) issues the request fetch(x) issues.
C11_SingleRequestMatchesEndpoint ==
    SingleUserFetch =>
        /\ \A k \in 1..Len(ucall.sent) :
              /\ ucall.sent[k].endpoint = "fetchUserById" => IsCanonicalId(ucall.sent[k].arg)
              /\ ucall.sent[k].endpoint = "fetchUserByUsername" =>
                    IsUsernameString(ucall.sent[k].arg)
        /\ ucall.input.val.t = "object" =>
              ucall.sent = <<UserManager_fetch(Bare(ucall.input.user), ucall.cache0).req>>

-----------------------------------------------------------------------------
(* Further properties of the SpaceManager *)

\* fetch {spaces: [...]} was invoked with elements that all resolve
BatchFetch(c) ==
    /\ calls[c].pc # "idle"
    /\ IsFetchMultiple(c)
    /\ AllResolve(ResolveSpaceIds(calls[c].opts.many))

DistinctIds(raws) ==
    \A i \in 1..Len(raws) : \A j \in 1..Len(raws) : raws[i].id = raws[j].id => i = j
\* the entities of a response, each under its id, in response order
EntriesOf(raws) == [i \in 1..Len(raws) |-> [k |-> raws[i].id, v |-> NewSpace(raws[i])]]

\* C12: fetch {spaces: [...]} whose elements all resolve issues exactly one transport call,
\* carrying every resolved id in input order whether or not some are cached, and, when the
\* transport has answered (with spaces of distinct ids, or with none), returns a collection
\* holding exactly the entities of the response, keyed by id, in response order.
C12_BatchFetchOneCallAndTheResponse ==
    \A c \in Callers :
        BatchFetch(c) =>
            /\ calls[c].sent = <<Req("spaces", ResolveSpaceIds(calls[c].opts.many))>>
            /\ (JustSettled(c) /\ calls[c].resp.err = "" /\ DistinctIds(calls[c].resp.data)) =>
                  calls[c].result = ReturnColl(EntriesOf(calls[c].resp.data))

-----------------------------------------------------------------------------
(* Two callers: calls in flight together, settling in any order *)

ConcFetchOptions ==
    {Options("object", {"space"}, Str(i), <<>>, FALSE, skip, caf) :
        i \in SpaceIds, skip \in {"undefined", "true"}, caf \in {"undefined", "false"}}
    \cup {Options("object", {"spaces"}, Num, <<Str("1"), Str("2")>>, TRUE,
                  "undefined", "undefined")}
ConcFetchByCreatorIdsOptions ==
    {Options("object", {"users"}, Num, <<Str("7")>>, TRUE, "undefined", "undefined")}
ConcSearchOptions ==
    {Options("object", {"query"}, Num, <<>>, FALSE, "undefined", "undefined")}

\* what a list endpoint answers with here: nothing, one space, or both spaces
ConcListResponses ==
    {EmptyResp}
    \cup {DataResp(<<raw>>) : raw \in RawSpaces}
    \cup {DataResp(<<[id |-> "1", ver |-> v], [id |-> "2", ver |-> v]>>) : v \in Versions}

ConcFetch(c) ==
    \E o \in ConcFetchOptions : Invoke(c, "fetch", o, SpaceManager_fetch(o, spaceCache))

ConcFetchByCreatorIds(c) ==
    \E o \in ConcFetchByCreatorIdsOptions :
        Invoke(c, "fetchByCreatorIds", o, SpaceManager_fetchByCreatorIds(o, userCache))

ConcSearch(c) ==
    \E o \in ConcSearchOptions : Invoke(c, "search", o, SpaceManager_search(o))

ConcSettleMultiple(c) ==
    /\ Awaiting(c, "spaces")
    /\ \E resp \in ConcListResponses :
          Resume(c, resp, fetchMultipleSpacesResume(spaceCache, resp, calls[c].opts))

ConcSettleByCreatorIds(c) ==
    /\ Awaiting(c, "spaces/by/creator_ids")
    /\ \E resp \in ConcListResponses :
          Resume(c, resp, fetchByCreatorIdsResume(spaceCache, resp, calls[c].opts))

ConcSettleSearch(c) ==
    /\ Awaiting(c, "spaces/search")
    /\ \E resp \in ConcListResponses :
          Resume(c, resp, searchResume(spaceCache, resp, calls[c].opts))

ConcNext ==
    \E c \in Callers :
        \/ ConcFetch(c)
        \/ ConcFetchByCreatorIds(c)
        \/ ConcSearch(c)
        \/ SettleSingle(c)
        \/ ConcSettleMultiple(c)
        \/ ConcSettleByCreatorIds(c)
        \/ ConcSettleSearch(c)
        \/ TransportRejects(c)
        \/ Release(c)

\* a fresh client: both caches empty, nothing in flight
ConcInit ==
    /\ spaceCache = EmptyColl
    /\ userCache = EmptyColl
    /\ calls = [c \in Callers |-> IdleCall]
    /\ ucall = IdleUserCall

ConcSpec == ConcInit /\ [][ConcNext]_vars

-----------------------------------------------------------------------------
(* Properties of calls in flight together *)

\* a single fetch of id x that went to the transport
SingleFetchSent(c, x) ==
    /\ IsFetchSingle(c)
    /\ BaseResolveId(calls[c].opts.one) = x
    /\ calls[c].pc = "await" \/ JustSettled(c)
\* ... and completed with a space, caching enabled
SingleFetchStored(c, x) ==
    /\ SingleFetchSent(c, x)
    /\ JustSettled(c)
    /\ calls[c].resp.hasData
    /\ calls[c].opts.cacheAfterFetching # "false"
\* d completed next after c, and nothing has completed since
CompletedLast(d, c) ==
    /\ calls[d].before = calls[c].after
    /\ calls[d].after = spaceCache

\* C13: two single fetches of the same id that both went to the transport (issued before
\* either completed, or with skipCacheCheck) each issued their own call, and once both have
\* completed with caching enabled the cache holds under that id the entity built from the
\* response that completed last, whichever call that was.
C13_NoCoalescingLastCompletionWins ==
    \A c \in Callers : \A d \in Callers \ {c} : \A x \in SpaceIds :
        (SingleFetchSent(c, x) /\ SingleFetchSent(d, x)) =>
            /\ calls[c].sent = <<Req("spaces/:id", <<x>>)>>
            /\ calls[d].sent = <<Req("spaces/:id", <<x>>)>>
            /\ (SingleFetchStored(c, x) /\ SingleFetchStored(d, x) /\ CompletedLast(d, c)) =>
                  /\ CollHas(spaceCache, x)
                  /\ CollGet(spaceCache, x) = NewSpace(calls[d].resp.data[1])
                  /\ calls[d].result = ReturnEnt(NewSpace(calls[d].resp.data[1]))

\* both issued while the id was not cached, answered differently, the second answer stays
C13_Witness ==
    \E c \in Callers : \E d \in Callers \ {c} : \E x \in SpaceIds :
        /\ SingleFetchStored(c, x)
        /\ SingleFetchStored(d, x)
        /\ calls[c].opts.skipCacheCheck # "true"
        /\ calls[d].opts.skipCacheCheck # "true"
        /\ ~CollHas(calls[c].before, x)
        /\ CompletedLast(d, c)
        /\ calls[c].resp.data[1].ver # calls[d].resp.data[1].ver
        /\ CollGet(spaceCache, x) # calls[c].result.ent

\* C14: whatever fetch, fetchByCreatorIds and search calls have been made, completed or
\* failed, in whatever interleaving, every cache entry is stored under its own id.
C14_EveryEntryUnderItsOwnId ==
    \A i \in 1..Len(spaceCache) : spaceCache[i].v.id = spaceCache[i].k

\* a cache of two entries, filled by more than one method, with a failed call and a call
\* still in flight
C14_Witness ==
    /\ Len(spaceCache) = 2
    /\ \E c \in Callers : \E d \in Callers \ {c} :
          /\ JustSettled(c)
          /\ calls[c].result.kind = "throw"
          /\ calls[d].pc = "await"
          /\ calls[d].op # calls[c].op

\* d is a single fetch of x, skipCacheCheck not true, invoked next after c completed
FollowingFetch(d, c, x) ==
    /\ JustInvoked(d)
    /\ IsFetchSingle(d)
    /\ BaseResolveId(calls[d].opts.one) = x
    /\ calls[d].opts.skipCacheCheck # "true"
    /\ calls[d].before = calls[c].after

\* C15: after a single fetch of x has succeeded with caching enabled, a following fetch of
\* x with skipCacheCheck not true, nothing having completed in between, returns the entity
\* the first fetch returned and makes no transport call.
C15_FollowingFetchReturnsTheFetched ==
    \A c \in Callers : \A d \in Callers \ {c} : \A x \in SpaceIds :
        (SingleFetchStored(c, x) /\ FollowingFetch(d, c, x)) =>
            /\ calls[d].pc = "done"
            /\ calls[d].result = calls[c].result
            /\ calls[d].result.kind = "entity"
            /\ calls[d].sent = <<>>

\* the first fetch found x uncached and brought its second version; the next returns it
C15_Witness ==
    \E c \in Callers : \E d \in Callers \ {c} : \E x \in SpaceIds :
        /\ SingleFetchStored(c, x)
        /\ FollowingFetch(d, c, x)
        /\ ~CollHas(calls[c].before, x)
        /\ calls[c].result.ent.ver = 2
        /\ calls[d].pc = "done"

====
